---- MODULE Spec2Model ----
(***************************************************************************)
(* Model of dispatch_plot.py: the module-level load of the hourly series,  *)
(* the colour table, and create_dispatch_plot(data, day, has_generator),   *)
(* stepped statement by statement.  A pandas column is a sequence of       *)
(* integers, a numpy vector a sequence of hours_per_day integers, a raised *)
(* exception the name of its Python class in err.                          *)
(***************************************************************************)
EXTENDS Integers, Sequences, FiniteSets, TLC

\* ------------------------------------------------------------------ bounds
MaxRows == 49
MaxDay == 1
MaxMissing == 1
MaxSeed == 2
ValMod == 4
MaxCalls == 2

\* ------------------------------------------------------- program constants
hours_per_day == 24

SOLAR == "Solar Production (kWh)"
CHARGE == "Battery Charge (kWh)"
DISCHARGE == "Battery Discharge (kWh)"
GENERATOR == "Generator Production (kWh)"
CURTAILMENT == "Curtailment (kWh)"
LOSTLOAD == "Lost Load (kWh)"
LOAD == "Load (kWh)"

Columns == {SOLAR, CHARGE, DISCHARGE, GENERATOR, CURTAILMENT, LOSTLOAD, LOAD}

ColorDict ==
  [k \in {"Solar Production", "Battery Charge", "Battery Discharge",
          "Generator", "Curtailment", "Load", "Lost Load"} |->
     CASE k = "Solar Production" -> "#FFD700"
       [] k = "Battery Charge" -> "#ADD8E6"
       [] k = "Battery Discharge" -> "#ADD8E6"
       [] k = "Generator" -> "#FF4500"
       [] k = "Curtailment" -> "#FFA500"
       [] k = "Load" -> "#000000"
       [] OTHER -> "#FF0000"]

OutputPath == "results/dispatch_plot.png"
ConfirmationMessage ==
  "Dispatch plot saved as dispatch_plot.png in expected_values/results folder"

\* Python exception classes the function can raise, and the spec's names
\* for the two failure kinds it distinguishes.
KeyError == "KeyError"
ValueError == "ValueError"
IndexError == "IndexError"
MissingFieldError == KeyError
OutOfRangeError == IndexError

\* ------------------------------------------------------- input series
ColNo(c) ==
  CASE c = SOLAR -> 1 [] c = CHARGE -> 2 [] c = DISCHARGE -> 3
    [] c = GENERATOR -> 4 [] c = CURTAILMENT -> 5 [] c = LOSTLOAD -> 6
    [] OTHER -> 7

\* The cell of column c in row r (1-based) of the seed-th input file; the
\* term counting weeks of rows keeps one day's rows from repeating the
\* previous day's.  Odd seeds give energy values >= 0, even seeds shift them
\* down by one so that negative cells occur as well.
Cell(c, r, seed) ==
  ((r * (ColNo(c) + seed) + ColNo(c) + ((r - 1) \div 7)) % ValMod)
    - (IF seed % 2 = 0 THEN 1 ELSE 0)

ReadCsv(n, missing, seed) ==
  [c \in Columns \ missing |-> [r \in 1..n |-> Cell(c, r, seed)]]

Frames ==
  { ReadCsv(n, missing, seed) :
      n \in 0..MaxRows,
      missing \in {m \in SUBSET Columns : Cardinality(m) <= MaxMissing},
      seed \in 1..MaxSeed }

\* ------------------------------------------------------- numpy / pandas
Min(a, b) == IF a < b THEN a ELSE b

Zeros == [h \in 1..hours_per_day |-> 0]

VecAdd(a, b) == [h \in 1..Len(a) |-> a[h] + b[h]]

VecNeg(a) == [h \in 1..Len(a) |-> 0 - a[h]]

\* number of rows of a frame (0 for a frame without columns)
RowCount(frame) ==
  IF DOMAIN frame = {} THEN 0 ELSE Len(frame[CHOOSE c \in DOMAIN frame : TRUE])

\* variant: the slice starts and ends one row late
IlocOneLate(frame, start_idx, end_idx) ==
  [c \in DOMAIN frame |->
     SubSeq(frame[c], Min(start_idx + 1, Len(frame[c])) + 1,
                      Min(end_idx + 1, Len(frame[c])))]

\* data.iloc[start_idx:end_idx]: a positional slice, clamped to the frame
Iloc(frame, start_idx, end_idx) ==
  [c \in DOMAIN frame |->
     SubSeq(frame[c], Min(start_idx, Len(frame[c])) + 1,
                      Min(end_idx, Len(frame[c])))]

\* ------------------------------------------------------------------ state
VARIABLES
  data,        \* the frame read from results/optimal_dispatch.csv (line 7)
  color_dict,  \* the colour table (lines 10-17)
  pc,          \* position of the running call of create_dispatch_plot
  loc,         \* its locals
  ax,          \* the axes it draws into
  err,         \* the exception that ended it, or "none"
  file,        \* content of results/dispatch_plot.png
  stdout,      \* lines printed so far
  writes,      \* savefig calls made by the running call
  entry,       \* file and stdout as they were when the running call began
  prev,        \* locals and axes of the previous completed call
  calls        \* calls made so far

vars == <<data, color_dict, pc, loc, ax, err, file, stdout, writes, entry,
          prev, calls>>

NoLocals ==
  [day |-> 0, has_generator |-> FALSE, start_idx |-> 0, end_idx |-> 0,
   daily_data |-> <<>>, cumulative_outflow |-> <<>>,
   cumulative_inflow |-> <<>>]

NoAxes ==
  [bands |-> <<>>, lines |-> <<>>, xlabel |-> "", ylabel |-> "",
   title |-> <<>>, legend |-> "", grid |-> FALSE]

\* the output path before any render: no file, or an image left by an
\* earlier process
AbsentFile == [path |-> OutputPath, exists |-> FALSE, figure |-> NoAxes]

StaleFile ==
  [path |-> OutputPath, exists |-> TRUE,
   figure |-> [NoAxes EXCEPT !.title = <<"stale">>]]

\* the state the statements of the function read and write
St ==
  [data |-> data, color_dict |-> color_dict, loc |-> loc, ax |-> ax,
   err |-> err, file |-> file, stdout |-> stdout, writes |-> writes]

Raise(s, kind) == [s EXCEPT !.err = kind]

\* variant: a length mismatch reported as an index error
ColumnFaultIndexError(s, col, vec) ==
  IF col \notin DOMAIN s.loc.daily_data THEN KeyError
  ELSE IF Len(s.loc.daily_data[col]) # Len(vec) THEN IndexError
  ELSE "none"

\* the exception raised by reading column col of the day's slice and
\* combining it elementwise with the vector vec, or "none"
ColumnFault(s, col, vec) ==
  IF col \notin DOMAIN s.loc.daily_data THEN KeyError
  ELSE IF Len(s.loc.daily_data[col]) # Len(vec) THEN ValueError
  ELSE "none"

fill_between(s, y1, y2, label, key) ==
  [s EXCEPT !.ax.bands =
     Append(@, [label |-> label, color |-> s.color_dict[key],
                y1 |-> y1, y2 |-> y2])]

plot(s, y, label, color) ==
  [s EXCEPT !.ax.lines = Append(@, [label |-> label, color |-> color, y |-> y])]

\* lines 20-33
Enter(s, day, has_generator) ==
  [s EXCEPT
     !.loc = [day |-> day, has_generator |-> has_generator,
              start_idx |-> day * hours_per_day,
              end_idx |-> day * hours_per_day + hours_per_day,
              daily_data |-> Iloc(s.data, day * hours_per_day,
                                  day * hours_per_day + hours_per_day),
              cumulative_outflow |-> Zeros,
              cumulative_inflow |-> Zeros],
     !.ax = NoAxes,
     !.err = "none",
     !.writes = 0]

\* variant: the running total is a view of the Solar Production column, so
\* advancing it writes into the loaded frame
PlotSolarProductionInPlace(s) ==
  LET cum == s.loc.cumulative_outflow
      fault == ColumnFault(s, SOLAR, cum)
  IN IF fault # "none" THEN Raise(s, fault)
     ELSE LET col == s.loc.daily_data[SOLAR]
              drawn == fill_between(s, cum, VecAdd(cum, col),
                                    "Solar Production", "Solar Production")
          IN [drawn EXCEPT
                !.loc.cumulative_outflow = VecAdd(cum, col),
                !.data[SOLAR] =
                   [r \in 1..Len(@) |->
                      IF r > s.loc.start_idx /\ r <= s.loc.end_idx
                        THEN @[r] + col[r - s.loc.start_idx] ELSE @[r]]]

\* lines 35-38
PlotSolarProduction(s) ==
  LET cum == s.loc.cumulative_outflow
      fault == ColumnFault(s, SOLAR, cum)
  IN IF fault # "none" THEN Raise(s, fault)
     ELSE LET col == s.loc.daily_data[SOLAR]
              drawn == fill_between(s, cum, VecAdd(cum, col),
                                    "Solar Production", "Solar Production")
          IN [drawn EXCEPT !.loc.cumulative_outflow = VecAdd(cum, col)]

\* variant: the charge is added to the outflow total
PlotBatteryChargeOnOutflow(s) ==
  LET cum == s.loc.cumulative_inflow
      fault == ColumnFault(s, CHARGE, cum)
  IN IF fault # "none" THEN Raise(s, fault)
     ELSE LET col == s.loc.daily_data[CHARGE]
              drawn == fill_between(s, VecNeg(cum), VecNeg(VecAdd(cum, col)),
                                    "Battery Charging", "Battery Charge")
          IN [drawn EXCEPT !.loc.cumulative_outflow = VecAdd(@, col)]

\* lines 41-44
PlotBatteryCharge(s) ==
  LET cum == s.loc.cumulative_inflow
      fault == ColumnFault(s, CHARGE, cum)
  IN IF fault # "none" THEN Raise(s, fault)
     ELSE LET col == s.loc.daily_data[CHARGE]
              drawn == fill_between(s, VecNeg(cum), VecNeg(VecAdd(cum, col)),
                                    "Battery Charging", "Battery Charge")
          IN [drawn EXCEPT !.loc.cumulative_inflow = VecAdd(cum, col)]

\* variant: the band is drawn but the running total is not advanced
PlotBatteryDischargeNoAdvance(s) ==
  LET cum == s.loc.cumulative_outflow
      fault == ColumnFault(s, DISCHARGE, cum)
  IN IF fault # "none" THEN Raise(s, fault)
     ELSE fill_between(s, cum, VecAdd(cum, s.loc.daily_data[DISCHARGE]),
                       "Battery Discharging", "Battery Discharge")

\* lines 46-49
PlotBatteryDischarge(s) ==
  LET cum == s.loc.cumulative_outflow
      fault == ColumnFault(s, DISCHARGE, cum)
  IN IF fault # "none" THEN Raise(s, fault)
     ELSE LET col == s.loc.daily_data[DISCHARGE]
              drawn == fill_between(s, cum, VecAdd(cum, col),
                                    "Battery Discharging", "Battery Discharge")
          IN [drawn EXCEPT !.loc.cumulative_outflow = VecAdd(cum, col)]

\* lines 53-55, the body of "if has_generator"
PlotGeneratorProduction(s) ==
  LET cum == s.loc.cumulative_outflow
      fault == ColumnFault(s, GENERATOR, cum)
  IN IF fault # "none" THEN Raise(s, fault)
     ELSE LET col == s.loc.daily_data[GENERATOR]
              drawn == fill_between(s, cum, VecAdd(cum, col),
                                    "Generator", "Generator")
          IN [drawn EXCEPT !.loc.cumulative_outflow = VecAdd(cum, col)]

\* variant: only the drawing is guarded by has_generator, the addition is not
NoGeneratorStillAdded(s) ==
  IF ColumnFault(s, GENERATOR, s.loc.cumulative_outflow) # "none" THEN s
  ELSE [s EXCEPT !.loc.cumulative_outflow =
                    VecAdd(@, s.loc.daily_data[GENERATOR])]

\* line 52 with has_generator false: nothing is read, drawn or added
NoGenerator(s) == s

\* lines 57-59: the band is drawn, the running total is not advanced
PlotLostLoad(s) ==
  LET cum == s.loc.cumulative_outflow
      fault == ColumnFault(s, LOSTLOAD, cum)
  IN IF fault # "none" THEN Raise(s, fault)
     ELSE fill_between(s, cum, VecAdd(cum, s.loc.daily_data[LOSTLOAD]),
                       "Lost Load", "Lost Load")

\* variant: the figure is saved before the Load curve is read and drawn
PlotLoadAfterSave(s) ==
  LET saved == [s EXCEPT !.file = [path |-> OutputPath, exists |-> TRUE,
                                   figure |-> s.ax]]
      fault == ColumnFault(s, LOAD, Zeros)
  IN IF fault # "none" THEN Raise(saved, fault)
     ELSE plot(s, s.loc.daily_data[LOAD], "Load", s.color_dict["Load"])

\* variant: a missing Load column is skipped instead of raising
PlotLoadIfPresent(s) ==
  IF LOAD \notin DOMAIN s.loc.daily_data THEN s
  ELSE IF Len(s.loc.daily_data[LOAD]) # hours_per_day THEN Raise(s, ValueError)
  ELSE plot(s, s.loc.daily_data[LOAD], "Load", s.color_dict["Load"])

\* lines 61-62; x is range(hours_per_day)
PlotLoad(s) ==
  LET fault == ColumnFault(s, LOAD, Zeros)
  IN IF fault # "none" THEN Raise(s, fault)
     ELSE plot(s, s.loc.daily_data[LOAD], "Load", s.color_dict["Load"])

\* variant: curtailment subtracted instead of added
PlotMaxSolarMinus(s) ==
  LET d == s.loc.daily_data
  IN IF SOLAR \notin DOMAIN d \/ CURTAILMENT \notin DOMAIN d
       THEN Raise(s, KeyError)
     ELSE IF Len(d[SOLAR]) # hours_per_day THEN Raise(s, ValueError)
     ELSE plot(s, VecAdd(d[SOLAR], VecNeg(d[CURTAILMENT])),
               "Max Solar Production", "orange")

\* lines 64-65
PlotMaxSolar(s) ==
  LET d == s.loc.daily_data
  IN IF SOLAR \notin DOMAIN d \/ CURTAILMENT \notin DOMAIN d
       THEN Raise(s, KeyError)
     ELSE IF Len(d[SOLAR]) # hours_per_day THEN Raise(s, ValueError)
     ELSE plot(s, VecAdd(d[SOLAR], d[CURTAILMENT]),
               "Max Solar Production", "orange")

\* lines 67-76: the second legend call replaces the first
Decorate(s) ==
  [s EXCEPT !.ax.xlabel = "Hour",
            !.ax.ylabel = "Energy (kWh)",
            !.ax.title = <<"Dispatch Plot - Day", s.loc.day + 1>>,
            !.ax.grid = TRUE,
            !.ax.legend = "upper left"]

\* variant: an existing file is kept
savefigNoOverwrite(s) ==
  [s EXCEPT !.file = IF @.exists THEN @
                     ELSE [path |-> OutputPath, exists |-> TRUE, figure |-> s.ax],
            !.writes = @ + 1]

\* line 79: the figure replaces whatever the path held
savefig(s) ==
  [s EXCEPT !.file = [path |-> OutputPath, exists |-> TRUE, figure |-> s.ax],
            !.writes = @ + 1]

\* line 80
EmitConfirmation(s) ==
  [s EXCEPT !.stdout = Append(@, ConfirmationMessage)]

\* ---------------------------------------------------------------- actions
Init ==
  /\ data \in Frames
  /\ color_dict = ColorDict
  /\ pc = "idle"
  /\ loc = NoLocals
  /\ ax = NoAxes
  /\ err = "none"
  /\ file \in {AbsentFile, StaleFile}
  /\ stdout = <<>>
  /\ writes = 0
  /\ entry = [file |-> file, stdout |-> <<>>]
  /\ prev = [loc |-> NoLocals, ax |-> NoAxes]
  /\ calls = 0

\* the statement at the current position has run with result r; an
\* exception is not caught anywhere and ends the process
Commit(r, next) ==
  /\ data' = r.data
  /\ color_dict' = r.color_dict
  /\ loc' = r.loc
  /\ ax' = r.ax
  /\ err' = r.err
  /\ file' = r.file
  /\ stdout' = r.stdout
  /\ writes' = r.writes
  /\ pc' = IF r.err = "none" THEN next ELSE "failed"

Call ==
  /\ pc \in {"idle", "done"}
  /\ calls < MaxCalls
  /\ \E day \in 0..MaxDay, has_generator \in BOOLEAN :
       Commit(Enter(St, day, has_generator), "solar")
  /\ calls' = calls + 1
  /\ entry' = [file |-> file, stdout |-> stdout]
  /\ prev' = IF pc = "done" THEN [loc |-> loc, ax |-> ax] ELSE prev

Solar ==
  /\ pc = "solar"
  /\ Commit(PlotSolarProduction(St), "charge")
  /\ UNCHANGED <<entry, prev, calls>>

Charge ==
  /\ pc = "charge"
  /\ Commit(PlotBatteryCharge(St), "discharge")
  /\ UNCHANGED <<entry, prev, calls>>

Discharge ==
  /\ pc = "discharge"
  /\ Commit(PlotBatteryDischarge(St), "generator")
  /\ UNCHANGED <<entry, prev, calls>>

Generator ==
  /\ pc = "generator"
  /\ loc.has_generator
  /\ Commit(PlotGeneratorProduction(St), "lostload")
  /\ UNCHANGED <<entry, prev, calls>>

SkipGenerator ==
  /\ pc = "generator"
  /\ ~loc.has_generator
  /\ Commit(NoGenerator(St), "lostload")
  /\ UNCHANGED <<entry, prev, calls>>

LostLoad ==
  /\ pc = "lostload"
  /\ Commit(PlotLostLoad(St), "load")
  /\ UNCHANGED <<entry, prev, calls>>

Load ==
  /\ pc = "load"
  /\ Commit(PlotLoad(St), "maxsolar")
  /\ UNCHANGED <<entry, prev, calls>>

MaxSolar ==
  /\ pc = "maxsolar"
  /\ Commit(PlotMaxSolar(St), "decorate")
  /\ UNCHANGED <<entry, prev, calls>>

Labels ==
  /\ pc = "decorate"
  /\ Commit(Decorate(St), "save")
  /\ UNCHANGED <<entry, prev, calls>>

Save ==
  /\ pc = "save"
  /\ Commit(savefig(St), "confirm")
  /\ UNCHANGED <<entry, prev, calls>>

Confirm ==
  /\ pc = "confirm"
  /\ Commit(EmitConfirmation(St), "done")
  /\ UNCHANGED <<entry, prev, calls>>

Next ==
  \/ Call
  \/ Solar
  \/ Charge
  \/ Discharge
  \/ Generator
  \/ SkipGenerator
  \/ LostLoad
  \/ Load
  \/ MaxSolar
  \/ Labels
  \/ Save
  \/ Confirm

Spec == Init /\ [][Next]_vars

\* the statements of one call, in program order; the interpreter runs a
\* started call to its end or to its first exception
Step ==
  \/ Solar
  \/ Charge
  \/ Discharge
  \/ Generator
  \/ SkipGenerator
  \/ LostLoad
  \/ Load
  \/ MaxSolar
  \/ Labels
  \/ Save
  \/ Confirm

FairSpec == Spec /\ WF_vars(Step)

TypeOK ==
  /\ pc \in {"idle", "solar", "charge", "discharge", "generator", "lostload",
             "load", "maxsolar", "decorate", "save", "confirm", "done", "failed"}
  /\ err \in {"none", KeyError, ValueError}
  /\ calls \in 0..MaxCalls

\* ------------------------------------------------------ claim vocabulary
Hours == 1..hours_per_day

Called == pc # "idle"

Finished == pc \in {"done", "failed"}

\* the series has fewer rows than the requested day needs
Short == (loc.day + 1) * hours_per_day > RowCount(data)

\* the cell of column c shown at plot hour h (1-based) of the selected day
D(c, h) == data[c][hours_per_day * loc.day + h]

Gen(h) == IF loc.has_generator THEN D(GENERATOR, h) ELSE 0

HasBand(a, l) == \E i \in 1..Len(a.bands) : a.bands[i].label = l

BandOf(a, l) == a.bands[CHOOSE i \in 1..Len(a.bands) : a.bands[i].label = l]

HasLine(a, l) == \E i \in 1..Len(a.lines) : a.lines[i].label = l

LineOf(a, l) == a.lines[CHOOSE i \in 1..Len(a.lines) : a.lines[i].label = l]

\* the columns a call reads
ReadColumns(has_generator) ==
  IF has_generator THEN Columns ELSE Columns \ {GENERATOR}

\* ---------------------------------------------------------------- claims

C2_AsStated ==
  (Finished /\ Short) => (pc = "failed" /\ err = OutOfRangeError)

\* C2 (amended): a render of a series with fewer than (day+1)*24 rows never
\* gets past the Solar Production step: it fails there before anything is
\* drawn or saved, with KeyError when the Solar Production column is
\* missing and otherwise with the ValueError of adding a shorter column to
\* the 24-element running total.
C2_ShortSeriesFails ==
  (Called /\ Short) =>
    /\ pc \in {"solar", "failed"}
    /\ ax.bands = <<>>
    /\ file = entry.file
    /\ pc = "failed" =>
         err = (IF SOLAR \in DOMAIN data THEN ValueError ELSE KeyError)

C2_Witness ==
  /\ pc = "failed"
  /\ err = ValueError
  /\ loc.day = 1
  /\ RowCount(data) = 2 * hours_per_day - 1

\* C3 (as stated): a render of a series that lacks one of the seven
\* columns ends in a failure of the missing-field kind, for either value of
\* has_generator.
C3_AsStated ==
  (Finished /\ Columns \ DOMAIN data # {}) =>
    (pc = "failed" /\ err = MissingFieldError)

\* C3 (amended): a render of a series that has the 24 rows of the requested
\* day fails exactly when the series lacks a column the call reads (all
\* seven with has_generator, all but Generator Production without), and the
\* failure is then a KeyError raised before anything is saved.
C3_MissingColumnFails ==
  (Finished /\ ~Short) =>
    /\ pc = "failed" <=> ReadColumns(loc.has_generator) \ DOMAIN data # {}
    /\ pc = "failed" => (err = KeyError /\ file = entry.file /\ writes = 0)

C3_Witness ==
  /\ pc = "failed"
  /\ err = KeyError
  /\ ~Short
  /\ LOAD \notin DOMAIN data
  /\ Len(ax.bands) >= 4

\* two completed renders of the same series and day that differ in
\* has_generator: WithGen is the one with the flag, WithoutGen the other
Paired ==
  /\ pc = "done"
  /\ Len(prev.ax.bands) > 0
  /\ prev.loc.day = loc.day
  /\ prev.loc.has_generator # loc.has_generator

WithGen == IF loc.has_generator THEN [loc |-> loc, ax |-> ax] ELSE prev

WithoutGen == IF loc.has_generator THEN prev ELSE [loc |-> loc, ax |-> ax]

\* C4: of two renders of the same series and day, the one without
\* has_generator draws no Generator band, stacks its Lost Load band on a
\* running total lower by exactly Generator[h] at every hour, and draws the
\* same Solar, Battery Charge and Battery Discharge bands as the other.
C4_GeneratorToggle ==
  Paired =>
    /\ ~HasBand(WithoutGen.ax, "Generator")
    /\ HasBand(WithGen.ax, "Generator")
    /\ \A h \in Hours :
         BandOf(WithoutGen.ax, "Lost Load").y1[h] =
           BandOf(WithGen.ax, "Lost Load").y1[h] - D(GENERATOR, h)
    /\ \A l \in {"Solar Production", "Battery Charging", "Battery Discharging"} :
         BandOf(WithoutGen.ax, l) = BandOf(WithGen.ax, l)

C4_Witness ==
  /\ Paired
  /\ ~loc.has_generator
  /\ \E h \in Hours : D(GENERATOR, h) > 0

\* the inputs of C5: exactly 24 rows, all seven columns, day 0
FullDay ==
  /\ Called
  /\ RowCount(data) = hours_per_day
  /\ DOMAIN data = Columns
  /\ loc.day = 0

\* C5: a render of a series with exactly 24 rows and all seven columns for
\* day 0 never fails, runs to completion, and on completion has replaced
\* the content of results/dispatch_plot.png by the figure it drew (once) and
\* has printed the confirmation message after it.
C5_FullDaySucceeds ==
  /\ [](FullDay =>
          /\ pc # "failed"
          /\ pc = "done" =>
               /\ file = [path |-> OutputPath, exists |-> TRUE, figure |-> ax]
               /\ Len(ax.bands) = (IF loc.has_generator THEN 5 ELSE 4)
               /\ Len(ax.lines) = 2
               /\ writes = 1
               /\ stdout = Append(entry.stdout, ConfirmationMessage))
  /\ ((FullDay /\ pc = "solar") ~> (FullDay /\ pc = "done"))

C5_Witness ==
  /\ FullDay
  /\ pc = "done"
  /\ entry.file = StaleFile
  /\ file.figure.title = <<"Dispatch Plot - Day", 1>>

\* C6: at every hour whose Curtailment cell is >= 0, the Max Solar
\* Production curve (Solar + Curtailment) is at or above the upper edge of
\* the Solar Production band (Solar).
C6_MaxSolarAboveSolar ==
  HasLine(ax, "Max Solar Production") =>
    \A h \in Hours :
      D(CURTAILMENT, h) >= 0 =>
        /\ LineOf(ax, "Max Solar Production").y[h] >=
             BandOf(ax, "Solar Production").y2[h]
        /\ BandOf(ax, "Solar Production").y2[h] = D(SOLAR, h)

C6_Witness ==
  /\ HasLine(ax, "Max Solar Production")
  /\ \E h \in Hours : D(CURTAILMENT, h) > 0 /\ D(SOLAR, h) > 0
  /\ \E h \in Hours : D(CURTAILMENT, h) < 0

\* the order in which a call draws its bands
BandOrder(has_generator) ==
  IF has_generator
    THEN <<"Solar Production", "Battery Charging", "Battery Discharging",
           "Generator", "Lost Load">>
    ELSE <<"Solar Production", "Battery Charging", "Battery Discharging",
           "Lost Load">>

LayerColumn(l) ==
  CASE l = "Solar Production" -> SOLAR
    [] l = "Battery Charging" -> CHARGE
    [] l = "Battery Discharging" -> DISCHARGE
    [] l = "Generator" -> GENERATOR
    [] OTHER -> LOSTLOAD

MaxOf(S) == CHOOSE m \in S : \A n \in S : n <= m

\* the upper edge of the last outflow band among the first n bands whose
\* label is not in skip; zero when there is none
OutflowTop(n, skip) ==
  LET js == {j \in 1..n : ax.bands[j].label \notin skip}
  IN IF js = {} THEN Zeros ELSE ax.bands[MaxOf(js)].y2

BandsInOrder ==
  \E k \in 0..Len(BandOrder(loc.has_generator)) :
    [i \in 1..Len(ax.bands) |-> ax.bands[i].label] =
      SubSeq(BandOrder(loc.has_generator), 1, k)

BandsSpan ==
  \A i \in 1..Len(ax.bands) :
    LET b == ax.bands[i]
    IN IF b.label = "Battery Charging"
         THEN /\ b.y1 = Zeros
              /\ \A h \in Hours : b.y2[h] = 0 - D(CHARGE, h)
         ELSE /\ b.y1 = OutflowTop(i - 1, {"Battery Charging"})
              /\ \A h \in Hours : b.y2[h] = b.y1[h] + D(LayerColumn(b.label), h)

InflowAdvanced ==
  \A h \in Hours :
    loc.cumulative_inflow[h] =
      (IF HasBand(ax, "Battery Charging") THEN D(CHARGE, h) ELSE 0)

C8_DaySlice ==
  (Called /\ ~Short) =>
    /\ \A c \in DOMAIN data :
         /\ Len(loc.daily_data[c]) = hours_per_day
         /\ \A h \in Hours :
              loc.daily_data[c][h] = data[c][hours_per_day * loc.day + h]
    /\ HasBand(ax, "Solar Production") =>
         \A h \in Hours :
           BandOf(ax, "Solar Production").y2[h] =
             data[SOLAR][hours_per_day * loc.day + h]
    /\ HasLine(ax, "Load") =>
         \A h \in Hours :
           LineOf(ax, "Load").y[h] = data[LOAD][hours_per_day * loc.day + h]
    /\ HasLine(ax, "Max Solar Production") =>
         \A h \in Hours :
           LineOf(ax, "Max Solar Production").y[h] =
             data[SOLAR][hours_per_day * loc.day + h]
               + data[CURTAILMENT][hours_per_day * loc.day + h]

C8_Witness ==
  /\ pc = "done"
  /\ loc.day = 1
  /\ RowCount(data) > 2 * hours_per_day
  /\ \E h \in Hours : data[LOAD][h] # data[LOAD][hours_per_day + h]

\* C9: no step of a render, successful or failing, changes a cell of the
\* loaded series or an entry of color_dict.
C9_InputsUnchanged ==
  [][data' = data /\ color_dict' = color_dict]_vars

C9_Witness ==
  /\ pc = "failed"
  /\ loc.has_generator
  /\ Len(ax.bands) = 3
  /\ data \in Frames
  /\ color_dict = ColorDict

\* C10: a failed render has not touched the output file and has printed
\* nothing; a render writes the image at most once and prints the
\* confirmation only after the write.
C10_FailureBeforeSave ==
  Called =>
    /\ pc = "failed" =>
         (file = entry.file /\ stdout = entry.stdout /\ writes = 0)
    /\ writes <= 1
    /\ writes = 0 => (file = entry.file /\ stdout = entry.stdout)
    /\ stdout # entry.stdout =>
         /\ writes = 1
         /\ stdout = Append(entry.stdout, ConfirmationMessage)
         /\ file = [path |-> OutputPath, exists |-> TRUE, figure |-> ax]

C10_Witness ==
  /\ pc = "failed"
  /\ err = KeyError
  /\ calls = 2
  /\ Len(ax.bands) = 3
  /\ Len(file.figure.bands) = 4
  /\ stdout = <<ConfirmationMessage>>

====
